---- MODULE Spec2Model ----
(***************************************************************************)
(* Model of src/worker/signaling-worker.js: the room table, the peers and  *)
(* the event listeners registered by fetch (message, close, error).        *)
(*                                                                         *)
(* Strings that the code only compares are TLA+ strings.  Room ids are     *)
(* sequences of characters so that String.prototype.trim is computed.      *)
(* An inbound object is a record; an absent key is an absent field.        *)
(* A Map is the sequence of its keys in insertion order; the room's Map    *)
(* values are the peer objects themselves, i.e. peers[id].                 *)
(* peer.name (randomName) is cosmetic, immutable and never read by any     *)
(* condition; it is left out of the peer record and of the payloads.       *)
(***************************************************************************)
EXTENDS Integers, Sequences, FiniteSets, TLC

VARIABLES
  rooms,  \* const rooms = new Map(): room id -> [keyHash, peers]
  peers,  \* the peer objects created by fetch: id -> [roomId, roomKeyHash, rtcSupported]
  sock,   \* state of each peer's server socket
  steps,  \* number of events dispatched so far
  ev,     \* the event whose listener ran last
  pre,    \* rooms and peers as that listener found them
  out,    \* the socket.send calls of that listener, in call order
  chan    \* what each socket has carried since the start, when it is recorded

vars == <<rooms, peers, sock, steps, ev, pre, out, chan>>

\* ------------------------------------------------------------------ bounds
\* connections accepted in one run
MaxPeers == 3
\* events dispatched in one run
MaxEvents == 6
\* sockets that are broken at one time with their close/error event still pending
MaxStale == 1
\* messages recorded per socket in one run
MaxLog == 3

IdPool == <<"p1", "p2", "p3", "p4">>
PeerIds == {IdPool[i] : i \in 1..MaxPeers}

\* Inbound values the clients choose from.
RawRoomIds == {<<"a">>, <<"b">>}
RawKeys == {"", "k1", "k2"}
RawTargets == PeerIds \cup {"nobody"}

\* ------------------------------------------------------------- JS values
\* peer.roomId = null
Null == <<"null">>
\* broadcast's exceptId = null
NoId == ""

\* JS truthiness of a roomId value (null and '' are falsy)
Truthy(x) == x # Null /\ x # <<>>

\* String.prototype.trim
trim_none(s) == s

RECURSIVE TrimLeft(_)
TrimLeft(s) == IF s # <<>> /\ Head(s) = " " THEN TrimLeft(Tail(s)) ELSE s

RECURSIVE TrimRight(_)
TrimRight(s) ==
  IF s # <<>> /\ s[Len(s)] = " " THEN TrimRight(SubSeq(s, 1, Len(s) - 1)) ELSE s

trim(s) == TrimRight(TrimLeft(s))

\* String(msg[f] || '') for a string-valued key; empty is the given empty string
StringOr(msg, f, empty) == IF f \in DOMAIN msg THEN msg[f] ELSE empty

\* Map.prototype.set(key, _) on the key order: an existing key keeps its place
MapSet(keys, k) ==
  IF \E i \in 1..Len(keys) : keys[i] = k THEN keys ELSE Append(keys, k)

\* Map.prototype.delete(key) on the key order
MapDelete(keys, k) == SelectSeq(keys, LAMBDA x : x # k)

\* Map.prototype.has / membership of a key
MapHas(keys, k) == \E i \in 1..Len(keys) : keys[i] = k

\* rooms.delete(roomId)
RoomsDelete(rs, rid) == [r \in DOMAIN rs \ {rid} |-> rs[r]]

\* ---------------------------------------------------------------- sends
\* socket.send(JSON.stringify(payload)) on peer `to`: throws unless the socket is open.
\* s is the machine state threaded through one listener: rooms, peers, the sends
\* so far, and whether an exception is propagating.
\* the sockets whose traffic is recorded
Recorded == {IdPool[1]}

\* socket `to` carries e after all it has carried
carry(c, to, e) ==
  IF c.on /\ to \in Recorded /\ Len(c.log[to]) < MaxLog
  THEN [c EXCEPT !.log[to] = Append(@, e)] ELSE c

\* a socket that carried its messages last-in first-out
send_prepend(s, to, payload) ==
  [s EXCEPT !.out = Append(@, [to |-> to, data |-> payload, ok |-> sock[to] = "open"]),
            !.thrown = sock[to] # "open",
            !.chan = IF sock[to] = "open" /\ @.on /\ to \in Recorded
                        /\ Len(@.log[to]) < MaxLog
                     THEN [@ EXCEPT !.log[to] = <<[by |-> s.by, data |-> payload]>> \o @]
                     ELSE @]

send(s, to, payload) ==
  [s EXCEPT !.out = Append(@, [to |-> to, data |-> payload, ok |-> sock[to] = "open"]),
            !.thrown = sock[to] # "open",
            !.chan = IF sock[to] = "open"
                     THEN carry(@, to, [by |-> s.by, data |-> payload]) ELSE @]

asPeerInfo(s, id) == [id |-> id, rtcSupported |-> s.peers[id].rtcSupported]

\* room.peers.forEach(peer => { try { peer.socket.send(data) } catch (_) {} })
RECURSIVE broadcastEach_abort(_, _, _, _)
broadcastEach_abort(s, ids, payload, exceptId) ==
  IF ids = <<>> \/ s.thrown THEN s
  ELSE LET id == Head(ids)
           s1 == IF exceptId # NoId /\ id = exceptId THEN s ELSE send(s, id, payload)
       IN broadcastEach_abort(s1, Tail(ids), payload, exceptId)

RECURSIVE broadcastEach(_, _, _, _)
broadcastEach(s, ids, payload, exceptId) ==
  IF ids = <<>> THEN s
  ELSE LET id == Head(ids)
           s1 == IF exceptId # NoId /\ id = exceptId
                 THEN s
                 ELSE [send(s, id, payload) EXCEPT !.thrown = FALSE]
       IN broadcastEach(s1, Tail(ids), payload, exceptId)

broadcast(s, room, payload, exceptId) ==
  broadcastEach(s, room.peers, payload, exceptId)

\* ------------------------------------------------------------- operations
getOrCreateRoom(s, roomId, keyHash) ==
  IF roomId \notin DOMAIN s.rooms
  THEN [s EXCEPT !.rooms = (roomId :> [keyHash |-> keyHash, peers |-> <<>>]) @@ @]
  ELSE s

\* if (room.peers.size === 0)
roomIsEmpty_never(room) == FALSE

roomIsEmpty_always(room) == TRUE

roomIsEmpty(room) == Len(room.peers) = 0

\* peer.roomId = null
clearRoomId_skip(s, p) == s

clearRoomId(s, p) == [s EXCEPT !.peers[p].roomId = Null]

leaveRoom(s, p) ==
  LET rid == s.peers[p].roomId IN
  IF ~Truthy(rid) THEN s
  ELSE IF rid \notin DOMAIN s.rooms THEN s
  ELSE LET s1 == [s EXCEPT !.rooms[rid].peers = MapDelete(@, p)]
           s2 == broadcast(s1, s1.rooms[rid], [type |-> "peer-left", peerId |-> p], p)
           s3 == IF roomIsEmpty(s2.rooms[rid])
                 THEN [s2 EXCEPT !.rooms = RoomsDelete(@, rid)]
                 ELSE s2
       IN clearRoomId(s3, p)

\* if (room.keyHash && keyHash !== room.keyHash)
keyMismatch_never(room, keyHash) == FALSE

keyMismatch_strict(room, keyHash) == keyHash # room.keyHash

keyMismatch(room, keyHash) == room.keyHash # "" /\ keyHash # room.keyHash

\* if (!room.keyHash && keyHash) room.keyHash = keyHash
adoptKey_skip(s, roomId, keyHash) == s

adoptKey(s, roomId, keyHash) ==
  IF s.rooms[roomId].keyHash = "" /\ keyHash # ""
  THEN [s EXCEPT !.rooms[roomId].keyHash = keyHash]
  ELSE s

\* if (peer.roomId && peer.roomId !== roomId) leaveRoom(peer)
leaveOld_skip(s, p, roomId) == s

leaveOld(s, p, roomId) ==
  IF Truthy(s.peers[p].roomId) /\ s.peers[p].roomId # roomId
  THEN leaveRoom(s, p)
  ELSE s

\* peer.roomId = ...; peer.roomKeyHash = ...; peer.rtcSupported = ...; room.peers.set(...)
enterRoom(s, p, roomId, keyHash, msg) ==
  [s EXCEPT
     !.peers[p] = [roomId |-> roomId,
                   roomKeyHash |-> keyHash,
                   rtcSupported |-> ~("rtcSupported" \in DOMAIN msg
                                      /\ msg.rtcSupported = FALSE)],
     !.rooms[roomId].peers = MapSet(@, p)]

\* [...room.peers.values()].filter(p => p.id !== peer.id).map(p => asPeerInfo(p))
rosterOf_withSelf(s, p, roomId) ==
  [i \in 1..Len(s.rooms[roomId].peers) |-> asPeerInfo(s, s.rooms[roomId].peers[i])]

rosterOf(s, p, roomId) ==
  LET others == SelectSeq(s.rooms[roomId].peers, LAMBDA q : q # p)
  IN [i \in 1..Len(others) |-> asPeerInfo(s, others[i])]

joinRoom(s, p, msg) ==
  LET roomId == trim(StringOr(msg, "roomId", <<>>)) IN
  IF roomId = <<>> THEN s
  ELSE
    LET keyHash == StringOr(msg, "roomKeyHash", "")
        s1 == getOrCreateRoom(s, roomId, keyHash)
    IN
    IF keyMismatch(s1.rooms[roomId], keyHash)
    THEN send(s1, p, [type |-> "room-key-mismatch"])
    ELSE
      LET s2 == adoptKey(s1, roomId, keyHash)
          s3 == leaveOld(s2, p, roomId)
          s4 == enterRoom(s3, p, roomId, keyHash, msg)
          s5 == send(s4, p, [type |-> "welcome", peerId |-> p, roomId |-> roomId,
                             peers |-> rosterOf(s4, p, roomId)])
      IN IF s5.thrown THEN s5
         ELSE broadcast(s5, s5.rooms[roomId],
                        [type |-> "peer-joined", peer |-> asPeerInfo(s5, p)], p)

\* JSON.stringify drops the keys whose value is undefined
SignalPayload(p, msg) ==
  [f \in {"type", "sender"} \cup (DOMAIN msg \cap {"sdp", "ice"}) |->
     IF f = "type" THEN "signal" ELSE IF f = "sender" THEN p ELSE msg[f]]

relaySignal_anyRoom(s, p, msg) ==
  LET rid == s.peers[p].roomId IN
  IF ~Truthy(rid) THEN s
  ELSE IF rid \notin DOMAIN s.rooms THEN s
  ELSE IF ~("to" \in DOMAIN msg
            /\ \E r \in DOMAIN s.rooms : MapHas(s.rooms[r].peers, msg.to)) THEN s
  ELSE send(s, msg.to, SignalPayload(p, msg))

relaySignal(s, p, msg) ==
  LET rid == s.peers[p].roomId IN
  IF ~Truthy(rid) THEN s
  ELSE IF rid \notin DOMAIN s.rooms THEN s
  ELSE IF ~("to" \in DOMAIN msg /\ MapHas(s.rooms[rid].peers, msg.to)) THEN s
  ELSE send(s, msg.to, SignalPayload(p, msg))

onMessage_unknownLeaves(s, p, msg) ==
  LET type == IF "type" \in DOMAIN msg THEN msg.type ELSE "" IN
  CASE type = "join" -> joinRoom(s, p, msg)
    [] type = "signal" -> relaySignal(s, p, msg)
    [] OTHER -> leaveRoom(s, p)

onMessage(s, p, msg) ==
  LET type == IF "type" \in DOMAIN msg THEN msg.type ELSE "" IN
  CASE type = "join" -> joinRoom(s, p, msg)
    [] type = "signal" -> relaySignal(s, p, msg)
    [] type = "disconnect" -> leaveRoom(s, p)
    [] type = "pong" -> s
    [] OTHER -> s

\* event.data as the transport delivers it: text that is not JSON, the JSON text
\* null, or the JSON text of an object
JoinMsgs ==
  {[type |-> "join", roomId |-> r, roomKeyHash |-> k] : r \in RawRoomIds, k \in RawKeys}
  \cup {[type |-> "join", roomId |-> <<"a">>],
        [type |-> "join", roomId |-> <<" ", "a", " ">>, roomKeyHash |-> "k1",
         rtcSupported |-> FALSE],
        [type |-> "join", roomId |-> <<"b">>, roomKeyHash |-> "", rtcSupported |-> FALSE],
        [type |-> "join", roomId |-> <<" ">>, roomKeyHash |-> "k1"],
        [type |-> "join"]}

SignalMsgs ==
  {[type |-> "signal", to |-> t, sdp |-> "offer"] : t \in RawTargets}
  \cup {[type |-> "signal", to |-> IdPool[1], sdp |-> "answer", ice |-> "cand"],
        [type |-> "signal", ice |-> "cand"]}

OtherMsgs ==
  {[type |-> "disconnect"], [type |-> "pong"], [type |-> "keepalive-response"],
   [roomId |-> <<"a">>]}

Datas ==
  {[text |-> "garbage"], [text |-> "null"]}
  \cup {[text |-> "object", value |-> m] : m \in JoinMsgs \cup SignalMsgs \cup OtherMsgs}

\* the message listener: try { onMessage(peer, JSON.parse(event.data)) }
\* catch { server.send(error) }.  JSON.parse throws on text that is not JSON;
\* msg.type throws on null.
messageListener_dropOnError(s, p, data) ==
  LET s1 == IF data.text = "object" THEN onMessage(s, p, data.value)
            ELSE [s EXCEPT !.thrown = TRUE]
  IN IF s1.thrown
     THEN send(leaveRoom([s1 EXCEPT !.thrown = FALSE], p), p,
               [type |-> "error", message |-> "Invalid JSON message"])
     ELSE s1

messageListener(s, p, data) ==
  LET s1 == IF data.text = "object" THEN onMessage(s, p, data.value)
            ELSE [s EXCEPT !.thrown = TRUE]
  IN IF s1.thrown
     THEN send([s1 EXCEPT !.thrown = FALSE], p,
               [type |-> "error", message |-> "Invalid JSON message"])
     ELSE s1

\* the machine state at the start of a listener
\* a listener of peer p's socket starts: what it sends is caused by event steps + 1
Start(p) ==
  [rooms |-> rooms, peers |-> peers, out |-> <<>>, thrown |-> FALSE,
   chan |-> chan, by |-> [peer |-> p, n |-> steps + 1]]

\* ------------------------------------------------------------------ state
NewPeer == [roomId |-> Null, roomKeyHash |-> "", rtcSupported |-> TRUE]

Init ==
  /\ rooms = << >>
  /\ peers = << >>
  /\ sock = << >>
  /\ steps = 0
  /\ ev = [kind |-> "init"]
  /\ pre = [rooms |-> << >>, peers |-> << >>]
  /\ out = <<>>
  /\ chan = [on |-> FALSE, log |-> [q \in PeerIds |-> <<>>]]

\* the same start, with every socket's traffic recorded
InitOrd ==
  /\ rooms = << >>
  /\ peers = << >>
  /\ sock = << >>
  /\ steps = 0
  /\ ev = [kind |-> "init"]
  /\ pre = [rooms |-> << >>, peers |-> << >>]
  /\ out = <<>>
  /\ chan = [on |-> TRUE, log |-> [q \in PeerIds |-> <<>>]]

\* one more event is dispatched, within the budget of the run
Tick == steps < MaxEvents /\ steps' = steps + 1

\* every listener starts from the current rooms and peers
Snapshot == pre' = [rooms |-> rooms, peers |-> peers]

\* fetch with Upgrade: websocket: a new peer object with a fresh id (the next
\* unused one of the pool stands for crypto.randomUUID())
Connect ==
  /\ Tick
  /\ Cardinality(DOMAIN peers) < MaxPeers
  /\ LET p == IdPool[Cardinality(DOMAIN peers) + 1] IN
       /\ peers' = (p :> NewPeer) @@ peers
       /\ sock' = (p :> "open") @@ sock
       /\ ev' = [kind |-> "connect", peer |-> p]
  /\ Snapshot
  /\ out' = <<>>
  /\ UNCHANGED <<rooms, chan>>

\* the connection breaks; its close/error event is not dispatched yet and
\* send on the socket throws from now on
Break(p) ==
  /\ Cardinality({q \in DOMAIN sock : sock[q] = "stale"}) < MaxStale
  /\ p \in DOMAIN peers
  /\ sock[p] = "open"
  /\ sock' = [sock EXCEPT ![p] = "stale"]
  /\ ev' = [kind |-> "break", peer |-> p]
  /\ Snapshot
  /\ out' = <<>>
  /\ UNCHANGED <<rooms, peers, steps, chan>>

\* a message event of peer p's socket
Message(p, data) ==
  /\ Tick
  /\ p \in DOMAIN peers
  /\ sock[p] \in {"open", "stale"}
  /\ \E s \in {messageListener(Start(p), p, data)} :
       /\ rooms' = s.rooms
       /\ peers' = s.peers
       /\ out' = s.out
       /\ chan' = s.chan
  /\ ev' = [kind |-> "message", peer |-> p, data |-> data]
  /\ Snapshot
  /\ UNCHANGED sock

\* the close event of peer p's socket
Close(p) ==
  /\ Tick
  /\ p \in DOMAIN peers
  /\ sock[p] \in {"open", "stale", "errored"}
  /\ \E s \in {leaveRoom(Start(p), p)} :
       /\ rooms' = s.rooms
       /\ peers' = s.peers
       /\ out' = s.out
       /\ chan' = s.chan
  /\ sock' = [sock EXCEPT ![p] = IF @ = "errored" THEN "dead" ELSE "closed"]
  /\ ev' = [kind |-> "close", peer |-> p]
  /\ Snapshot

\* the error event of peer p's socket
Error(p) ==
  /\ Tick
  /\ p \in DOMAIN peers
  /\ sock[p] \in {"open", "stale", "closed"}
  /\ \E s \in {leaveRoom(Start(p), p)} :
       /\ rooms' = s.rooms
       /\ peers' = s.peers
       /\ out' = s.out
       /\ chan' = s.chan
  /\ sock' = [sock EXCEPT ![p] = IF @ = "closed" THEN "dead" ELSE "errored"]
  /\ ev' = [kind |-> "error", peer |-> p]
  /\ Snapshot

Next ==
  \/ Connect
  \/ \E p \in PeerIds : Break(p)
  \/ \E p \in PeerIds : \E data \in Datas : Message(p, data)
  \/ \E p \in PeerIds : Close(p)
  \/ \E p \in PeerIds : Error(p)

Spec == Init /\ [][Next]_vars

SpecOrd == InitOrd /\ [][Next]_vars

TypeOK ==
  /\ DOMAIN peers \subseteq PeerIds
  /\ DOMAIN sock = DOMAIN peers
  /\ \A r \in DOMAIN rooms : Truthy(r)

\* ------------------------------------------------- reading the last event
\* the members of room r in room table rs (none when rs has no room r)
Members(rs, r) ==
  IF r \in DOMAIN rs THEN {rs[r].peers[i] : i \in 1..Len(rs[r].peers)} ELSE {}

\* the admission secret of room r in room table rs (empty when rs has no room r)
Secret(rs, r) == IF r \in DOMAIN rs THEN rs[r].keyHash ELSE ""

IsObject == ev.kind = "message" /\ ev.data.text = "object"
Msg == ev.data.value
MsgType == IF "type" \in DOMAIN Msg THEN Msg.type ELSE ""
Requester == ev.peer

IsJoin == IsObject /\ MsgType = "join"
\* the room id and the key a join asks for
Target == trim(StringOr(Msg, "roomId", <<>>))
Key == StringOr(Msg, "roomKeyHash", "")
\* where the peer of the last event was before it
Before == pre.peers[ev.peer].roomId

Rejected ==
  /\ IsJoin
  /\ Target # <<>>
  /\ Secret(pre.rooms, Target) # ""
  /\ Key # Secret(pre.rooms, Target)

Accepted ==
  /\ IsJoin
  /\ Target # <<>>
  /\ (Secret(pre.rooms, Target) = "" \/ Key = Secret(pre.rooms, Target))

\* the send calls of the last listener, by payload type and by socket
Sends(type) == {i \in 1..Len(out) : out[i].data.type = type}
SendsTo(type, q) == {i \in Sends(type) : out[i].to = q}

\* ------------------------------------------------------------------ claims

\* C1: membership consistency.  After every completed event, for every peer p and
\* room id r: p.roomId = r iff rooms has r and rooms[r].peers has p; so a peer is a
\* member of at most one room and no room holds a peer whose roomId is null.
C1_MembershipConsistent ==
  /\ \A p \in DOMAIN peers :
       \A r \in DOMAIN rooms \cup ({peers[p].roomId} \ {Null}) :
         (peers[p].roomId = r) <=> (r \in DOMAIN rooms /\ p \in Members(rooms, r))
  /\ \A p \in DOMAIN peers :
       Cardinality({r \in DOMAIN rooms : p \in Members(rooms, r)}) <= 1
  /\ \A r \in DOMAIN rooms :
       \A p \in Members(rooms, r) : p \in DOMAIN peers /\ peers[p].roomId # Null

\* a joined peer's socket closed and its room lives on with another member
C1_Witness ==
  /\ ev.kind \in {"close", "error"}
  /\ Before # Null
  /\ peers[ev.peer].roomId = Null
  /\ Members(rooms, Before) # {}

\* C2: no empty room is observable after any completed event; a room appears only
\* in a join that makes the requester its first member, and disappears only in the
\* step that removes its last member.
C2_NoEmptyRoom ==
  /\ \A r \in DOMAIN rooms : Len(rooms[r].peers) >= 1
  /\ \A r \in DOMAIN rooms \ DOMAIN pre.rooms :
       IsJoin /\ r = Target /\ rooms[r].peers = <<Requester>>
  /\ \A r \in DOMAIN pre.rooms \ DOMAIN rooms :
       pre.rooms[r].peers = <<ev.peer>> /\ Before = r /\ peers[ev.peer].roomId # r

\* one join removed the only room and created another
C2_Witness ==
  /\ IsJoin
  /\ DOMAIN pre.rooms = {<<"a">>}
  /\ DOMAIN rooms = {<<"b">>}

\* C3: a join presenting a key that differs from the room's non-empty secret sends
\* exactly one room-key-mismatch, to the requester, sends no welcome, peer-joined or
\* peer-left and nothing to any other peer, and leaves rooms and peers as they were.
C3_RejectedJoinChangesNothing ==
  Rejected =>
    /\ Cardinality(Sends("room-key-mismatch")) = 1
    /\ out[1].data.type = "room-key-mismatch"
    /\ \A i \in 1..Len(out) : out[i].to = Requester
    /\ Sends("welcome") = {}
    /\ Sends("peer-joined") = {}
    /\ Sends("peer-left") = {}
    /\ rooms = pre.rooms
    /\ peers = pre.peers

\* a member of another room was rejected and is still a member of that room
C3_Witness ==
  /\ Rejected
  /\ Before # Null
  /\ Before # Target
  /\ Requester \in Members(rooms, Before)

\* C4: a join with non-empty key K into a room whose secret is empty sets the
\* secret to K, and a non-empty secret of a room that stays in the table is never
\* changed by any event.
C4_SecretAdoptedThenFixed ==
  /\ (IsJoin /\ Target \in DOMAIN pre.rooms /\ pre.rooms[Target].keyHash = "" /\ Key # "")
       => (Target \in DOMAIN rooms /\ rooms[Target].keyHash = Key)
  /\ \A r \in DOMAIN pre.rooms \cap DOMAIN rooms :
       pre.rooms[r].keyHash # "" => rooms[r].keyHash = pre.rooms[r].keyHash

\* a keyless room with a member adopted the key of the next join
C4_Witness ==
  /\ IsJoin
  /\ Target \in DOMAIN pre.rooms
  /\ pre.rooms[Target].keyHash = ""
  /\ Key = "k2"
  /\ rooms[Target].keyHash = "k2"

\* C5: a room whose secret is empty accepts a join with a missing or empty key and
\* stays keyless, and accepts a join with any non-empty key K and adopts K.
C5_KeylessStaysOpen ==
  (IsJoin /\ Target \in DOMAIN pre.rooms /\ pre.rooms[Target].keyHash = "") =>
    /\ Sends("room-key-mismatch") = {}
    /\ Cardinality(SendsTo("welcome", Requester)) = 1
    /\ peers[Requester].roomId = Target
    /\ Requester \in Members(rooms, Target)
    /\ rooms[Target].keyHash = Key

\* a join without roomKeyHash entered a keyless room, which is still keyless
C5_Witness ==
  /\ IsJoin
  /\ Target \in DOMAIN pre.rooms
  /\ "roomKeyHash" \notin DOMAIN Msg
  /\ Before # Target
  /\ Len(rooms[Target].peers) = 2
  /\ rooms[Target].keyHash = ""

IsSignal == IsObject /\ MsgType = "signal"
\* the signal names a member of the sender's room
Routable ==
  /\ Before # Null
  /\ "to" \in DOMAIN Msg
  /\ Msg.to \in Members(pre.rooms, Before)

\* C6: a signal from joined peer A to a member t of A's room makes exactly one send
\* of a signal payload, to t and to no other peer, tagged sender = A.id and carrying
\* the sdp/ice of the inbound message; a signal from an unjoined peer or to an id that
\* is not a member of A's room makes no send at all.  Rooms and peers are unchanged.
C6_SignalRouting ==
  IsSignal =>
    /\ rooms = pre.rooms
    /\ peers = pre.peers
    /\ (Routable =>
          /\ Sends("signal") = {1}
          /\ out[1].to = Msg.to
          /\ out[1].data.sender = Requester
          /\ \A f \in {"sdp", "ice"} :
               /\ (f \in DOMAIN out[1].data) = (f \in DOMAIN Msg)
               /\ (f \in DOMAIN Msg => out[1].data[f] = Msg[f]))
    /\ (~Routable => out = <<>>)

\* a signal with both sdp and ice was forwarded to another member of the room
C6_Witness ==
  /\ IsSignal
  /\ Routable
  /\ Msg.to # Requester
  /\ {"sdp", "ice"} \subseteq DOMAIN Msg
  /\ Len(out) = 1
  /\ out[1].ok

\* the other members of the target room as the join found them, with their flags
RosterExpected ==
  {[id |-> q, rtcSupported |-> pre.peers[q].rtcSupported] :
     q \in Members(pre.rooms, Target) \ {Requester}}

\* C7: every accepted join makes exactly one send of a welcome, to the requester,
\* whose peers list is exactly the members of the target room at that moment other
\* than the requester, each once, with its id and current capability flag.
C7_WelcomeRoster ==
  Accepted =>
    /\ Cardinality(Sends("welcome")) = 1
    /\ \A i \in Sends("welcome") :
         LET roster == out[i].data.peers IN
         /\ out[i].to = Requester
         /\ {roster[j] : j \in 1..Len(roster)} = RosterExpected
         /\ Len(roster) = Cardinality(RosterExpected)
         /\ {roster[j].id : j \in 1..Len(roster)} = Members(rooms, Target) \ {Requester}
         /\ \A j \in 1..Len(roster) :
              roster[j].rtcSupported = peers[roster[j].id].rtcSupported

\* the third peer to join a room got a roster of two, one of them without rtc
C7_Witness ==
  /\ Accepted
  /\ \E i \in Sends("welcome") :
       /\ Len(out[i].data.peers) = 2
       /\ \E j \in 1..2 : ~out[i].data.peers[j].rtcSupported

\* C8: every accepted join makes exactly one send of a peer-joined, carrying the
\* joiner's id and capability flag, to each other member of the target room, and
\* none to the joiner or to anyone outside the target room.
C8_PeerJoinedToEachOther ==
  Accepted =>
    /\ \A q \in Members(rooms, Target) \ {Requester} :
         /\ Cardinality(SendsTo("peer-joined", q)) = 1
         /\ \A i \in SendsTo("peer-joined", q) :
              out[i].data.peer = [id |-> Requester,
                                  rtcSupported |-> peers[Requester].rtcSupported]
    /\ \A i \in Sends("peer-joined") :
         out[i].to \in Members(rooms, Target) \ {Requester}

IsLeave ==
  \/ ev.kind \in {"close", "error"}
  \/ IsObject /\ MsgType = "disconnect"

\* C9: when joined peer A runs the leave sequence for room R (disconnect message,
\* close or error event), each remaining member of R is sent exactly one peer-left
\* carrying A's id, nothing else is sent, R is removed iff A was its last member,
\* and A is unjoined afterwards.
C9_LeaveSequence ==
  (IsLeave /\ Before # Null) =>
    LET rest == Members(pre.rooms, Before) \ {ev.peer} IN
    /\ \A q \in rest : Cardinality(SendsTo("peer-left", q)) = 1
    /\ \A i \in 1..Len(out) :
         /\ out[i].data = [type |-> "peer-left", peerId |-> ev.peer]
         /\ out[i].to \in rest
    /\ (Before \notin DOMAIN rooms) <=> (rest = {})
    /\ Members(rooms, Before) = rest
    /\ peers[ev.peer].roomId = Null

\* an error event made a joined peer leave a room that another member stays in
C9_Witness ==
  /\ ev.kind = "error"
  /\ Before # Null
  /\ Len(out) >= 1
  /\ Before \in DOMAIN rooms

\* what C10 promises of a join by a member of Before for the other room Target
Switched ==
  /\ peers[Requester].roomId = Target
  /\ Requester \in Members(rooms, Target)
  /\ \A r \in DOMAIN rooms \ {Target} : Requester \notin Members(rooms, r)
  /\ \A q \in Members(pre.rooms, Before) \ {Requester} :
       \E i \in SendsTo("peer-left", q) : out[i].data.peerId = Requester
  /\ (Members(pre.rooms, Before) = {Requester} => Before \notin DOMAIN rooms)

\* C10 as stated: every join by a member of R1 for a different non-empty room id R2
\* leaves the peer a member of R2 only, with a peer-left sent to the rest of R1 and
\* R1 removed if the peer was its last member.
C10_SwitchAnyJoin ==
  (IsJoin /\ Before # Null /\ Target # <<>> /\ Target # Before) => Switched

\* C10 as amended: the same, for every such join that is accepted (R2 is new, or
\* its secret is empty or equal to the presented key).
C10_SwitchAcceptedJoin ==
  (Accepted /\ Before # Null /\ Target # Before) => Switched

\* a peer switched rooms and left another member behind in the old room
C10_Witness ==
  /\ Accepted
  /\ Before # Null
  /\ Target # Before
  /\ Members(rooms, Before) # {}
  /\ Sends("peer-left") # {}

\* the last listener changed neither rooms nor peers
Untouched == rooms = pre.rooms /\ peers = pre.peers

\* C11: the leave sequence runs once per disconnect.  Every leave (disconnect
\* message, close, error) leaves the peer unjoined; a leave of an unjoined peer
\* changes nothing and sends nothing; so does the second of close and error on one
\* connection; and an unjoined peer becomes joined only by its own accepted join, so
\* no later leave of the same connection repeats a peer-left or a room removal.
C11_LeaveOnce ==
  /\ IsLeave => peers[ev.peer].roomId = Null
  /\ (IsLeave /\ Before = Null) => (Untouched /\ out = <<>>)
  /\ (ev.kind \in {"close", "error"} /\ sock[ev.peer] = "dead") =>
       (Untouched /\ out = <<>>)
  /\ \A q \in DOMAIN pre.peers :
       (pre.peers[q].roomId = Null /\ peers[q].roomId # Null) =>
         (Accepted /\ q = Requester)

\* close and error both fired for a connection that had joined a keyed room in
\* which another member remains
C11_Witness ==
  /\ ev.kind \in {"close", "error"}
  /\ sock[ev.peer] = "dead"
  /\ peers[ev.peer].roomKeyHash = "k1"
  /\ \E r \in DOMAIN rooms : rooms[r].keyHash = "k1" /\ Len(rooms[r].peers) >= 1

\* the sends of a peer-joined or peer-left notice that threw
FailedNotices ==
  {i \in 1..Len(out) : out[i].data.type \in {"peer-joined", "peer-left"} /\ ~out[i].ok}

\* C12: when the send of a peer-joined or peer-left notice to one member throws,
\* every other member of the room (the triggering peer excepted) is still sent the
\* notice, the state changes of the operation are complete, and no error notice
\* follows the failed notice.
C12_BroadcastIndependent ==
  FailedNotices # {} =>
    /\ \A i \in Sends("error") : i > 1 /\ out[i - 1].data.type = "welcome"
    /\ Sends("peer-left") # {} =>
         /\ \A q \in Members(pre.rooms, Before) \ {ev.peer} :
              Cardinality(SendsTo("peer-left", q)) = 1
         /\ ev.peer \notin Members(rooms, Before)
         /\ peers[ev.peer].roomId # Before
    /\ Sends("peer-joined") # {} =>
         /\ \A q \in Members(rooms, Target) \ {Requester} :
              Cardinality(SendsTo("peer-joined", q)) = 1
         /\ Requester \in Members(rooms, Target)
         /\ peers[Requester].roomId = Target

\* a peer-joined threw on the first member's socket and reached the second member
C12_Witness ==
  /\ Accepted
  /\ \E i \in FailedNotices : \E j \in Sends("peer-joined") : i < j /\ out[j].ok

\* the sends outside a broadcast that threw
FailedUnicasts ==
  {i \in 1..Len(out) :
     out[i].data.type \in {"signal", "welcome", "room-key-mismatch"} /\ ~out[i].ok}

\* C13: when a send outside a broadcast throws (the forwarded signal, the welcome
\* or the room-key-mismatch), no error notice or other message goes to the
\* triggering peer because of it, and the rest of the operation's messages (the
\* peer-joined broadcast after a failed welcome) are still sent.
C13_UnicastFailureSwallowed ==
  FailedUnicasts # {} =>
    /\ Sends("error") = {}
    /\ Accepted =>
         \A q \in Members(rooms, Target) \ {Requester} :
           Cardinality(SendsTo("peer-joined", q)) = 1

\* C14: a message that cannot be decoded makes exactly one send, an error notice
\* to its sender, and changes neither rooms nor peers.
C14_UndecodableMessage ==
  (ev.kind = "message" /\ ev.data.text = "garbage") =>
    /\ Len(out) = 1
    /\ out[1].to = ev.peer
    /\ out[1].data.type = "error"
    /\ Untouched

\* a member of a room of two sent text that is not JSON and is still a member
C14_Witness ==
  /\ ev.kind = "message"
  /\ ev.data.text = "garbage"
  /\ Before # Null
  /\ Members(rooms, Before) # {ev.peer}
  /\ ev.peer \in Members(rooms, Before)

\* the roomId of the last message is missing or holds nothing but spaces
BlankRoomId ==
  "roomId" \in DOMAIN Msg => \A i \in 1..Len(Msg.roomId) : Msg.roomId[i] = " "

\* C15: a join whose roomId is missing, or empty after trimming, makes no send,
\* creates no room and leaves the requester as it was.
C15_EmptyRoomIdDropped ==
  (IsJoin /\ BlankRoomId) => (out = <<>> /\ Untouched)

\* a member of a room sent a join with a blank roomId and is still a member
C15_Witness ==
  /\ IsJoin
  /\ "roomId" \in DOMAIN Msg
  /\ Msg.roomId # <<>>
  /\ BlankRoomId
  /\ Before # Null
  /\ peers[Requester].roomId = Before

\* the type of the last message is none of join, signal, disconnect
OtherType == MsgType \notin {"join", "signal", "disconnect"}

\* C17 as stated: every decodable message whose type is none of join, signal,
\* disconnect makes no send and changes neither rooms nor peers.
C17_DecodableOtherIsNoOp ==
  (ev.kind = "message" /\ ev.data.text # "garbage"
     /\ (ev.data.text = "object" => OtherType))
    => (out = <<>> /\ Untouched)

\* C17 as amended: the same, for every message that decodes to a JSON object.
C17_ObjectOtherIsNoOp ==
  (IsObject /\ OtherType) => (out = <<>> /\ Untouched)

\* a member of a room sent a keepalive-response
C17_Witness ==
  /\ IsObject
  /\ MsgType = "keepalive-response"
  /\ Before # Null
  /\ peers[ev.peer].roomId = Before

\* C18: an accepted join for the room the peer is already in sends no peer-left,
\* removes and creates no room and leaves every member set as it was, and sends
\* the requester a welcome and every other member another peer-joined.
C18_RejoinSameRoom ==
  (Accepted /\ Before = Target) =>
    /\ Sends("peer-left") = {}
    /\ DOMAIN rooms = DOMAIN pre.rooms
    /\ \A r \in DOMAIN rooms : rooms[r].peers = pre.rooms[r].peers
    /\ Cardinality(SendsTo("welcome", Requester)) = 1
    /\ \A q \in Members(rooms, Target) \ {Requester} :
         Cardinality(SendsTo("peer-joined", q)) = 1

\* C19 as stated: every member of a room with a non-empty secret has that secret
\* as its recorded key.
C19_MembersHoldSecret ==
  \A r \in DOMAIN rooms :
    rooms[r].keyHash # "" =>
      \A p \in Members(rooms, r) : peers[p].roomKeyHash = rooms[r].keyHash

\* C19 as amended: every member of a room with a non-empty secret has that secret
\* or the empty key (it joined while the room was keyless) as its recorded key.
C19_MembersHoldSecretOrNone ==
  \A r \in DOMAIN rooms :
    rooms[r].keyHash # "" =>
      \A p \in Members(rooms, r) : peers[p].roomKeyHash \in {"", rooms[r].keyHash}

\* a keyed room with one member that presented the key and one that presented none
C19_Witness ==
  \E r \in DOMAIN rooms :
    /\ rooms[r].keyHash # ""
    /\ \E p, q \in Members(rooms, r) :
         peers[p].roomKeyHash = "" /\ peers[q].roomKeyHash = rooms[r].keyHash

\* C20: the secret does not outlive the room.  The leave of the last member of a
\* room removes it from the table, and a join for a room id that is not in the
\* table is accepted whatever its key X and creates the room with secret X and
\* the requester as its only member.
C20_SecretDiesWithRoom ==
  /\ \A r \in DOMAIN pre.rooms :
       (Members(pre.rooms, r) = {ev.peer} /\ peers[ev.peer].roomId # r)
         => r \notin DOMAIN rooms
  /\ (IsJoin /\ Target # <<>> /\ Target \notin DOMAIN pre.rooms) =>
       /\ Target \in DOMAIN rooms
       /\ rooms[Target] = [keyHash |-> Key, peers |-> <<Requester>>]
       /\ Sends("room-key-mismatch") = {}
       /\ Cardinality(SendsTo("welcome", Requester)) = 1

\* a peer that had left a room entered with k1 joined a room id absent from the
\* table with k2 and is the only member of the new room, whose secret is k2
C20_Witness ==
  /\ IsJoin
  /\ Before = Null
  /\ pre.peers[Requester].roomKeyHash = "k1"
  /\ pre.rooms = << >>
  /\ Key = "k2"
  /\ rooms[Target] = [keyHash |-> "k2", peers |-> <<Requester>>]

\* what socket q has carried, oldest first
Carried(q) == chan.log[q]

====
